---- MODULE Spec2Model ----
(***************************************************************************)
(* XPaxos replication core (src/src/xpaxos/xpaxos.go): the Replicate,      *)
(* Prepare and Commit handlers, the issuePrepare / issueCommit retry       *)
(* goroutines and the per-call completion channels.                        *)
(*                                                                         *)
(* Granularity: one action per critical section (the code between a        *)
(* mu.Lock() and the next mu.Unlock()) and one per RPC event (request      *)
(* delivered to the handler, reply returned to the issuing goroutine).     *)
(* SpecLock refines the critical sections: there every mu.Lock(), every    *)
(* mu.Unlock() and the code between them is a step of its own.             *)
(* A Go slice index i is the sequence index i + 1 here.                    *)
(***************************************************************************)
EXTENDS Integers, Sequences, FiniteSets, TLC

\* ------------------------------------------------------------- bounds
MaxReq == 3      \* client requests submitted in Spec
MaxForged == 1   \* Prepare calls made by a non-leader sender in SpecByz
MaxSeq == 2      \* timestamps and sequence numbers such a call may carry

\* ---------------------------------------------------- program constants
CLIENT == 0
REPLICATE == 0
PREPARE == 1
COMMIT == 2
REPLY == 3
InitialView == 1

\* The labrpc ends handed to Make: index CLIENT is the client driver, the
\* others are replicas. Ends is the smallest configuration with a follower,
\* SoloEnds the one whose synchronous group is the leader alone, LargeEnds
\* the N=4 configuration of the end-to-end scenarios.
Ends == {0, 1, 2}
SoloEnds == {0, 1}
LargeEnds == {0, 1, 2, 3}

VARIABLES
    synchronousGroup,  \* xp.synchronousGroup (the same set at every replica)
    view,              \* xp.view, per replica
    prepareSeqNum,     \* xp.prepareSeqNum, per replica
    executeSeqNum,     \* xp.executeSeqNum, per replica
    prepareLog,        \* xp.prepareLog, per replica
    commitLog,         \* xp.commitLog, per replica
    crashed,           \* replicas whose process died of a run-time panic
    clientCalls,       \* the Replicate invocations, in submission order
    prepareCalls,      \* issuePrepare goroutines and the Prepare handlers they reached
    commitCalls,       \* issueCommit goroutines and their replies
    quota,             \* how many requests the client driver submits
    forged,            \* Prepare calls made so far by non-leader senders
    mu                 \* xp.mu, per replica: the task that holds it, or Free

vars == <<synchronousGroup, view, prepareSeqNum, executeSeqNum, prepareLog,
          commitLog, crashed, clientCalls, prepareCalls, commitCalls, quota,
          forged, mu>>

\* ------------------------------------------------------ crypto helpers
\* A client request; the k-th submission carries timestamp k.
ClientRequest(k) == [Timestamp |-> k]

\* SHA-256 of the JSON bytes: deterministic, and collision-free on the
\* requests of the model.
digest(msg) == [sha256 |-> msg]

\* RSA-PKCS1v15 signature of msgDigest under the private key of replica id.
sign(id, msgDigest) == [signer |-> id, signed |-> msgDigest]

\* Verification under publicKeys[server].
verify(server, msgDigest, signature) ==
    signature.signer = server /\ signature.signed = msgDigest

\* A byte string that verifies under nobody's key.
BadSignature(msgDigest) == [signer |-> CLIENT, signed |-> msgDigest]

Message(type, d, sig, seq, v, ts, id) ==
    [MsgType |-> type, MsgDigest |-> d, Signature |-> sig, PrepareSeqNum |-> seq,
     View |-> v, ClientTimestamp |-> ts, ServerId |-> id]

NoReply == [MsgDigest |-> digest(ClientRequest(0)), Signature |-> BadSignature(digest(ClientRequest(0))),
            Success |-> FALSE]

\* The keys of a certificate (a Go map[int]Message).
Keys(cert) == DOMAIN cert

\* cert[k] = m, as Go's map assignment: an existing key is overwritten.
MapSet(cert, k, m) == (k :> m) @@ cert

GroupSize == Cardinality(synchronousGroup)

\* A task of a replica: the k-th Replicate invocation (op "Replicate", a = k),
\* the Prepare handler reached by the Prepare of Replicate a for sequence
\* number b, or the Commit handler reached by the Commit of replica a for
\* sequence number b.
Task(op, a, b) == [op |-> op, a |-> a, b |-> b]

\* The value of a mutex nobody holds.
Free == Task("free", 0, 0)

\* ------------------------------------------------------------- Make
\* The state Make(replicas, id, ...) builds at every replica id of `replicas`;
\* q is the number of requests the client driver will submit.
Make(replicas, q) ==
    /\ synchronousGroup = replicas \ {CLIENT}
    /\ view = [r \in replicas \ {CLIENT} |-> InitialView]
    /\ prepareSeqNum = [r \in replicas \ {CLIENT} |-> 0]
    /\ executeSeqNum = [r \in replicas \ {CLIENT} |-> 0]
    /\ prepareLog = [r \in replicas \ {CLIENT} |-> <<>>]
    /\ commitLog = [r \in replicas \ {CLIENT} |-> <<>>]
    /\ crashed = {}
    /\ clientCalls = <<>>
    /\ prepareCalls = {}
    /\ commitCalls = {}
    /\ quota = q
    /\ forged = 0
    /\ mu = [r \in replicas \ {CLIENT} |-> Free]

Init == Make(Ends, MaxReq)

\* --------------------------------------------------------- Replicate
LeaderMessage(s, request) ==
    Message(PREPARE, digest(request), sign(s, digest(request)),
            prepareSeqNum[s] + 1, view[s], request.Timestamp, s)

\* The issuePrepare goroutine for `server`, its call in flight; ch names the
\* Replicate invocation whose replyCh it feeds.
PrepareCall(server, prepareEntry, ch) ==
    [to |-> server, entry |-> prepareEntry, ch |-> ch, st |-> "sent",
     tokens |-> 0, ok |-> TRUE, reply |-> NoReply]

\* Replicate on the leader, from mu.Lock() to the fan-out.
ReplicateLeader(s) ==
    /\ Len(clientCalls) < quota
    /\ s \in synchronousGroup \ crashed
    /\ s = view[s]
    /\ LET request == ClientRequest(Len(clientCalls) + 1)
           msg == LeaderMessage(s, request)
           prepareEntry == [Request |-> request, Msg0 |-> msg]
           commitEntry == [Request |-> request, Msg0 |-> (s :> msg)]
       IN /\ prepareSeqNum' = [prepareSeqNum EXCEPT ![s] = @ + 1]
          /\ prepareLog' = [prepareLog EXCEPT ![s] = Append(@, prepareEntry)]
          /\ commitLog' = [commitLog EXCEPT ![s] = Append(@, commitEntry)]
          /\ prepareCalls' = prepareCalls \cup
                 {PrepareCall(server, prepareEntry, Len(clientCalls) + 1) :
                      server \in synchronousGroup \ {s}}
          /\ clientCalls' = Append(clientCalls,
                 [server |-> s, pc |-> "wait", tokens |-> 0,
                  reply |-> [IsLeader |-> TRUE, Success |-> FALSE]])
    /\ UNCHANGED <<mu, synchronousGroup, view, executeSeqNum, crashed, commitCalls,
                   quota, forged>>

\* Mutant: the leader returns without counting the slot as executed.
ReplicateReturnNoExecute(k) ==
    /\ k \in DOMAIN clientCalls
    /\ clientCalls[k].pc = "wait"
    /\ clientCalls[k].server \notin crashed
    /\ clientCalls[k].tokens = GroupSize - 1
    /\ clientCalls' = [clientCalls EXCEPT ![k].pc = "done", ![k].tokens = 0,
                                          ![k].reply.Success = TRUE]
    /\ UNCHANGED <<mu, synchronousGroup, view, prepareSeqNum, executeSeqNum,
                   prepareLog, commitLog, crashed, prepareCalls, commitCalls,
                   quota, forged>>

\* Replicate on the leader, after the acknowledgement wait.
ReplicateReturn(k) ==
    /\ k \in DOMAIN clientCalls
    /\ clientCalls[k].pc = "wait"
    /\ clientCalls[k].server \notin crashed
    /\ clientCalls[k].tokens = GroupSize - 1
    /\ executeSeqNum' = [executeSeqNum EXCEPT ![clientCalls[k].server] = @ + 1]
    /\ clientCalls' = [clientCalls EXCEPT ![k].pc = "done", ![k].tokens = 0,
                                          ![k].reply.Success = TRUE]
    /\ UNCHANGED <<mu, synchronousGroup, view, prepareSeqNum, prepareLog, commitLog,
                   crashed, prepareCalls, commitCalls, quota, forged>>

\* Mutant: the sequence number is taken before the leader test.
ReplicateNotLeaderCounts(s) ==
    /\ Len(clientCalls) < quota
    /\ s \in synchronousGroup \ crashed
    /\ s # view[s]
    /\ prepareSeqNum' = [prepareSeqNum EXCEPT ![s] = @ + 1]
    /\ clientCalls' = Append(clientCalls,
           [server |-> s, pc |-> "done", tokens |-> 0,
            reply |-> [IsLeader |-> FALSE, Success |-> FALSE]])
    /\ UNCHANGED <<mu, synchronousGroup, view, executeSeqNum,
                   prepareLog, commitLog, crashed, prepareCalls, commitCalls,
                   quota, forged>>

\* Replicate on a replica that is not the leader.
ReplicateNotLeader(s) ==
    /\ Len(clientCalls) < quota
    /\ s \in synchronousGroup \ crashed
    /\ s # view[s]
    /\ clientCalls' = Append(clientCalls,
           [server |-> s, pc |-> "done", tokens |-> 0,
            reply |-> [IsLeader |-> FALSE, Success |-> FALSE]])
    /\ UNCHANGED <<mu, synchronousGroup, view, prepareSeqNum, executeSeqNum,
                   prepareLog, commitLog, crashed, prepareCalls, commitCalls,
                   quota, forged>>

\* ----------------------------------------------------------- Prepare
Replace(calls, old, new) == (calls \ {old}) \cup {new}

\* Mutant: the signature is not verified.
PrepareAcceptsUnsigned(r, prepareEntry) ==
    /\ prepareEntry.Msg0.PrepareSeqNum = prepareSeqNum[r] + 1
    /\ prepareEntry.Msg0.MsgDigest = digest(prepareEntry.Request)

\* Mutant: the sequence-number test accepts any later Prepare.
PrepareAcceptsLater(r, prepareEntry) ==
    /\ prepareEntry.Msg0.PrepareSeqNum >= prepareSeqNum[r] + 1
    /\ prepareEntry.Msg0.MsgDigest = digest(prepareEntry.Request)
    /\ verify(prepareEntry.Msg0.ServerId, digest(prepareEntry.Request),
              prepareEntry.Msg0.Signature)

\* Mutant: the sequence-number test also accepts a number already logged.
PrepareAcceptsLogged(r, prepareEntry) ==
    /\ prepareEntry.Msg0.PrepareSeqNum <= prepareSeqNum[r] + 1
    /\ prepareEntry.Msg0.MsgDigest = digest(prepareEntry.Request)
    /\ verify(prepareEntry.Msg0.ServerId, digest(prepareEntry.Request),
              prepareEntry.Msg0.Signature)

\* The acceptance test of the Prepare handler.
PrepareAccepts(r, prepareEntry) ==
    /\ prepareEntry.Msg0.PrepareSeqNum = prepareSeqNum[r] + 1
    /\ prepareEntry.Msg0.MsgDigest = digest(prepareEntry.Request)
    /\ verify(prepareEntry.Msg0.ServerId, digest(prepareEntry.Request),
              prepareEntry.Msg0.Signature)

\* The follower's COMMIT message for an accepted Prepare (prepareSeqNum
\* already incremented).
FollowerMessage(r, prepareEntry) ==
    Message(COMMIT, digest(prepareEntry.Request),
            sign(r, digest(prepareEntry.Request)), prepareSeqNum[r] + 1, view[r],
            prepareEntry.Request.Timestamp, r)

\* The commit log of r after an accepted Prepare.
PrepareCommitLog(r, prepareEntry) ==
    IF executeSeqNum[r] >= Len(commitLog[r])
    THEN Append(commitLog[r],
                [Request |-> prepareEntry.Request,
                 Msg0 |-> MapSet(MapSet(<<>>, view[r], prepareEntry.Msg0),
                                 r, FollowerMessage(r, prepareEntry))])
    ELSE commitLog[r]

\* The issueCommit goroutine for `server`, its call in flight; h is the
\* sequence number of the Prepare whose handler owns the replyCh.
CommitCall(from, server, msg) ==
    [from |-> from, to |-> server, msg |-> msg, st |-> "sent", ok |-> TRUE,
     reply |-> NoReply]

\* The reply the Prepare handler presets.
PrepareReplyOf(r, prepareEntry, success) ==
    [MsgDigest |-> digest(prepareEntry.Request),
     Signature |-> sign(r, digest(prepareEntry.Request)), Success |-> success]

\* The Prepare handler, from mu.Lock() to its first suspension: the return
\* (rejection) or the Commit fan-out (acceptance).
Prepare(c) ==
    /\ c \in prepareCalls
    /\ c.st = "sent"
    /\ c.to \in synchronousGroup \ crashed
    /\ LET r == c.to
           e == c.entry
       IN IF PrepareAccepts(r, e)
          THEN /\ prepareSeqNum' = [prepareSeqNum EXCEPT ![r] = @ + 1]
               /\ prepareLog' = [prepareLog EXCEPT ![r] = Append(@, e)]
               /\ commitLog' = [commitLog EXCEPT ![r] = PrepareCommitLog(r, e)]
               /\ prepareCalls' = Replace(prepareCalls, c,
                      [c EXCEPT !.st = "running", !.tokens = 0,
                                !.reply = PrepareReplyOf(r, e, FALSE)])
               /\ commitCalls' = commitCalls \cup
                      {CommitCall(r, server, FollowerMessage(r, e)) :
                           server \in synchronousGroup \ {r}}
          ELSE /\ prepareCalls' = Replace(prepareCalls, c,
                      [c EXCEPT !.st = "replied",
                                !.reply = PrepareReplyOf(r, e, FALSE)])
               /\ UNCHANGED <<prepareSeqNum, prepareLog, commitLog, commitCalls>>
    /\ UNCHANGED <<mu, synchronousGroup, view, executeSeqNum, crashed, clientCalls,
                   quota, forged>>

\* Mutant: the barrier waits for the leader's and the follower's own entry only.
BarrierOpenTwoEntries(r) ==
    Cardinality(Keys(commitLog[r][executeSeqNum[r] + 1].Msg0)) >= 2

\* The barrier condition of the Prepare handler, read at slot executeSeqNum.
BarrierOpen(r) ==
    Cardinality(Keys(commitLog[r][executeSeqNum[r] + 1].Msg0)) = GroupSize

\* The Prepare handler after its acknowledgement wait: the barrier loop and
\* the execution. Reading commitLog[executeSeqNum] past the end of the slice
\* is a run-time panic, which ends the replica's process.
PrepareBarrier(c) ==
    /\ c \in prepareCalls
    /\ c.st = "running"
    /\ c.to \notin crashed
    /\ c.tokens = GroupSize - 1
    /\ LET r == c.to
       IN IF executeSeqNum[r] >= Len(commitLog[r])
          THEN /\ crashed' = crashed \cup {r}
               /\ UNCHANGED <<executeSeqNum, prepareCalls>>
          ELSE /\ BarrierOpen(r)
               /\ executeSeqNum' = [executeSeqNum EXCEPT ![r] = @ + 1]
               /\ prepareCalls' = Replace(prepareCalls, c,
                      [c EXCEPT !.st = "replied", !.tokens = 0,
                                !.reply.Success = TRUE])
               /\ UNCHANGED crashed
    /\ UNCHANGED <<mu, synchronousGroup, view, prepareSeqNum, prepareLog, commitLog,
                   clientCalls, commitCalls, quota, forged>>

\* Mutant: a negative reply is dropped, not retried.
ReplyOutcomeNoRetry(server, outDigest, reply) ==
    IF outDigest = reply.MsgDigest /\ verify(server, reply.MsgDigest, reply.Signature)
          /\ reply.Success
    THEN "token"
    ELSE "drop"

\* Mutant: every reply that arrives counts as an acknowledgement.
ReplyOutcomeAnyReply(server, outDigest, reply) == "token"

\* What issuePrepare / issueCommit do with a reply: "token" (push on
\* replyCh), "reissue" (call again) or "drop".
ReplyOutcome(server, outDigest, reply) ==
    IF outDigest = reply.MsgDigest /\ verify(server, reply.MsgDigest, reply.Signature)
    THEN IF reply.Success THEN "token" ELSE "reissue"
    ELSE "drop"

\* issuePrepare, from the return of sendPrepare.
issuePrepare(c) ==
    /\ c \in prepareCalls
    /\ c.st = "replied"
    /\ c.ch # 0
    /\ c.entry.Msg0.ServerId \notin crashed
    /\ LET outcome == ReplyOutcome(c.to, c.entry.Msg0.MsgDigest, c.reply)
       IN /\ prepareCalls' =
                 IF outcome = "reissue"
                 THEN Replace(prepareCalls, c, [c EXCEPT !.st = "sent", !.reply = NoReply])
                 ELSE prepareCalls \ {c}
          /\ clientCalls' =
                 IF outcome = "token" /\ c.ch \in DOMAIN clientCalls
                 THEN [clientCalls EXCEPT ![c.ch].tokens = @ + 1]
                 ELSE clientCalls
    /\ UNCHANGED <<mu, synchronousGroup, view, prepareSeqNum, executeSeqNum,
                   prepareLog, commitLog, crashed, commitCalls, quota, forged>>

\* ------------------------------------------------------------ Commit
\* Mutant: the message replaces the certificate of the slot.
CommitRecordFresh(r, msg) ==
    [commitLog[r] EXCEPT ![executeSeqNum[r] + 1].Msg0 = MapSet(<<>>, msg.ServerId, msg)]

\* The commit log of r after a verified Commit message.
CommitRecord(r, msg) ==
    [commitLog[r] EXCEPT ![executeSeqNum[r] + 1].Msg0 = MapSet(@, msg.ServerId, msg)]

\* The message a Commit call delivers: the sender's message, or that message
\* with its signature bytes altered on the way.
Tampered(msg) == [msg EXCEPT !.Signature = BadSignature(msg.MsgDigest)]

Wire(c) == IF c.st = "tampered" THEN Tampered(c.msg) ELSE c.msg

\* Mutant: the signature is checked against the digest only, not the signer.
CommitVerifiesDigest(msg) == msg.Signature.signed = msg.MsgDigest

\* The signature test of the Commit handler.
CommitVerifies(msg) == verify(msg.ServerId, msg.MsgDigest, msg.Signature)

\* The Commit handler.
Commit(c) ==
    /\ c \in commitCalls
    /\ c.st \in {"sent", "tampered"}
    /\ c.to \in synchronousGroup \ crashed
    /\ LET r == c.to
           msg == Wire(c)
           valid == CommitVerifies(msg)
           slot == executeSeqNum[r] < Len(commitLog[r])
       IN /\ commitLog' = IF valid /\ slot
                          THEN [commitLog EXCEPT ![r] = CommitRecord(r, msg)]
                          ELSE commitLog
          /\ commitCalls' = Replace(commitCalls, c,
                 [c EXCEPT !.st = "replied",
                           !.reply = [MsgDigest |-> msg.MsgDigest,
                                      Signature |-> sign(r, msg.MsgDigest),
                                      Success |-> valid /\ slot]])
    /\ UNCHANGED <<mu, synchronousGroup, view, prepareSeqNum, executeSeqNum,
                   prepareLog, crashed, clientCalls, prepareCalls, quota, forged>>

\* The Prepare handler of replica r that sent Commit message msg.
HandlerOf(r, msg) ==
    {h \in prepareCalls : /\ h.to = r
                          /\ h.st = "running"
                          /\ h.entry.Msg0.PrepareSeqNum = msg.PrepareSeqNum}

\* issueCommit, from the return of sendCommit.
issueCommit(c) ==
    /\ c \in commitCalls
    /\ c.st = "replied"
    /\ c.from \in synchronousGroup \ crashed
    /\ LET outcome == ReplyOutcome(c.to, c.msg.MsgDigest, c.reply)
       IN /\ commitCalls' =
                 IF outcome = "reissue"
                 THEN Replace(commitCalls, c, [c EXCEPT !.st = "sent", !.reply = NoReply])
                 ELSE commitCalls \ {c}
          /\ prepareCalls' =
                 IF outcome = "token"
                 THEN {IF h \in HandlerOf(c.from, c.msg)
                       THEN [h EXCEPT !.tokens = @ + 1] ELSE h : h \in prepareCalls}
                 ELSE prepareCalls
    /\ UNCHANGED <<mu, synchronousGroup, view, prepareSeqNum, executeSeqNum,
                   prepareLog, commitLog, crashed, clientCalls, quota, forged>>

\* ------------------------------------------------------ lossy transport
\* Mutant: a call that returned ok == false is issued again.
CallFailedRetry(c) == [c EXCEPT !.st = "sent", !.ok = FALSE, !.reply = NoReply]

\* issuePrepare / issueCommit after sendPrepare / sendCommit returned
\* ok == false: the goroutine ends.
CallFailed(c) == [c EXCEPT !.st = "failed", !.ok = FALSE, !.reply = NoReply]

\* The transport loses a Prepare request or the reply to it.
LosePrepare(c) ==
    /\ c \in prepareCalls
    /\ c.st \in {"sent", "replied"}
    /\ c.ok
    /\ prepareCalls' = Replace(prepareCalls, c, CallFailed(c))
    /\ UNCHANGED <<mu, synchronousGroup, view, prepareSeqNum, executeSeqNum,
                   prepareLog, commitLog, crashed, clientCalls, commitCalls,
                   quota, forged>>

\* The transport loses a Commit request or the reply to it.
LoseCommit(c) ==
    /\ c \in commitCalls
    /\ c.st \in {"sent", "replied"}
    /\ c.ok
    /\ commitCalls' = Replace(commitCalls, c, CallFailed(c))
    /\ UNCHANGED <<mu, synchronousGroup, view, prepareSeqNum, executeSeqNum,
                   prepareLog, commitLog, crashed, clientCalls, prepareCalls,
                   quota, forged>>

\* ------------------------------------------------- tampering transport
\* The signature of a Commit message is altered between sender and recipient.
TamperCommit(c) ==
    /\ c \in commitCalls
    /\ c.st = "sent"
    /\ commitCalls' = Replace(commitCalls, c, [c EXCEPT !.st = "tampered"])
    /\ UNCHANGED <<mu, synchronousGroup, view, prepareSeqNum, executeSeqNum,
                   prepareLog, commitLog, crashed, clientCalls, prepareCalls,
                   quota, forged>>

\* ------------------------------------------------ other Prepare callers
\* The Prepare entries a replica b other than the leader can send: any
\* request, sequence number and digest, signed with b's own key or with
\* bytes that verify under no key, and naming b or the leader as ServerId.
ForeignEntries(b, r) ==
    {[Request |-> ClientRequest(k),
      Msg0 |-> Message(PREPARE, digest(ClientRequest(k2)),
                       sign(b, digest(ClientRequest(k2))), seq, view[r], k, id)] :
        k \in 1 .. MaxSeq, k2 \in 1 .. MaxSeq, seq \in 1 .. MaxSeq, id \in {b, view[r]}}
    \cup
    {[Request |-> ClientRequest(k),
      Msg0 |-> Message(PREPARE, digest(ClientRequest(k)),
                       BadSignature(digest(ClientRequest(k))), seq, view[r], k, view[r])] :
        k \in 1 .. MaxSeq, seq \in 1 .. MaxSeq}

\* Replica b, not the leader, calls XPaxos.Prepare on replica r (labrpc lets
\* any end call any method); ch = 0: no Replicate waits for the outcome.
ForeignPrepare(b, r, prepareEntry) ==
    /\ forged < MaxForged
    /\ b \in synchronousGroup /\ b # view[b]
    /\ r \in synchronousGroup \ {b}
    /\ prepareEntry \in ForeignEntries(b, r)
    /\ \A c \in prepareCalls : ~(c.to = r /\ c.entry = prepareEntry /\ c.ch = 0)
    /\ prepareCalls' = prepareCalls \cup {PrepareCall(r, prepareEntry, 0)}
    /\ forged' = forged + 1
    /\ UNCHANGED <<mu, synchronousGroup, view, prepareSeqNum, executeSeqNum,
                   prepareLog, commitLog, crashed, clientCalls, commitCalls, quota>>

\* The reply to such a call reaches its sender, which does nothing with it.
ForeignReturn(c) ==
    /\ c \in prepareCalls
    /\ c.st = "replied"
    /\ c.ch = 0
    /\ prepareCalls' = prepareCalls \ {c}
    /\ UNCHANGED <<mu, synchronousGroup, view, prepareSeqNum, executeSeqNum,
                   prepareLog, commitLog, crashed, clientCalls, commitCalls,
                   quota, forged>>

\* ------------------------------------------------ duplicating transport
\* The transport delivers a Prepare request a second time. The reply to the
\* second delivery reaches no issuePrepare (ch = 0) and is discarded by
\* ForeignReturn.
DuplicatePrepare(c) ==
    /\ c \in prepareCalls
    /\ c.st = "sent"
    /\ c.ch # 0
    /\ \A d \in prepareCalls : ~(d.to = c.to /\ d.entry = c.entry /\ d.ch = 0)
    /\ prepareCalls' = prepareCalls \cup {PrepareCall(c.to, c.entry, 0)}
    /\ UNCHANGED <<mu, synchronousGroup, view, prepareSeqNum, executeSeqNum,
                   prepareLog, commitLog, crashed, clientCalls, commitCalls,
                   quota, forged>>

\* The transport delivers a Commit request a second time. The reply to the
\* second delivery reaches no issueCommit (from = CLIENT).
DuplicateCommit(c) ==
    /\ c \in commitCalls
    /\ c.st = "sent"
    /\ c.from # CLIENT
    /\ \A d \in commitCalls : ~(d.to = c.to /\ d.msg = c.msg /\ d.from = CLIENT)
    /\ commitCalls' = commitCalls \cup {CommitCall(CLIENT, c.to, c.msg)}
    /\ UNCHANGED <<mu, synchronousGroup, view, prepareSeqNum, executeSeqNum,
                   prepareLog, commitLog, crashed, clientCalls, prepareCalls,
                   quota, forged>>

\* The reply to a second delivery of a Commit is discarded.
DuplicateCommitReturn(c) ==
    /\ c \in commitCalls
    /\ c.st = "replied"
    /\ c.from = CLIENT
    /\ commitCalls' = commitCalls \ {c}
    /\ UNCHANGED <<mu, synchronousGroup, view, prepareSeqNum, executeSeqNum,
                   prepareLog, commitLog, crashed, clientCalls, prepareCalls,
                   quota, forged>>

\* ------------------------------------------- the handlers, lock by lock
\* In the actions of this section a label "atNNN" says that the task's next
\* statement is line NNN of xpaxos.go. A task blocked in mu.Lock() keeps the
\* label of the suspension before it ("sent", "wait", "running", "sleep").

\* mu.Lock(): enabled when the mutex is free.
Lock(r, task) == [mu EXCEPT ![r] = task]

\* Mutant: mu.Unlock() has no effect.
UnlockNothing(r) == mu

\* mu.Unlock(): the mutex is free afterwards, whoever held it.
Unlock(r) == [mu EXCEPT ![r] = Free]

\* sync: unlock of unlocked mutex is a fatal error of the process.
UnlockFatal(r) == IF mu[r] = Free THEN crashed \cup {r} ELSE crashed

ReplicateTask(k) == Task("Replicate", k, 0)

PrepareTask(c) == Task("Prepare", c.ch, c.entry.Msg0.PrepareSeqNum)

CommitTask(c) == Task("Commit", c.from, c.msg.PrepareSeqNum)

\* Replicate on the leader up to mu.Lock(): the leader test, read without
\* the mutex, and reply.IsLeader.
ReplicateCall(s) ==
    /\ Len(clientCalls) < quota
    /\ s \in synchronousGroup \ crashed
    /\ s = view[s]
    /\ clientCalls' = Append(clientCalls,
           [server |-> s, pc |-> "at130", tokens |-> 0,
            reply |-> [IsLeader |-> TRUE, Success |-> FALSE]])
    /\ UNCHANGED <<mu, synchronousGroup, view, prepareSeqNum, executeSeqNum,
                   prepareLog, commitLog, crashed, prepareCalls, commitCalls,
                   quota, forged>>

\* Replicate, line 130: mu.Lock() (the deferred Unlock is registered).
ReplicateLock(k) ==
    /\ k \in DOMAIN clientCalls
    /\ clientCalls[k].pc = "at130"
    /\ clientCalls[k].server \notin crashed
    /\ mu[clientCalls[k].server] = Free
    /\ mu' = Lock(clientCalls[k].server, ReplicateTask(k))
    /\ clientCalls' = [clientCalls EXCEPT ![k].pc = "at133"]
    /\ UNCHANGED <<synchronousGroup, view, prepareSeqNum, executeSeqNum,
                   prepareLog, commitLog, crashed, prepareCalls, commitCalls,
                   quota, forged>>

\* Replicate, lines 133-160: the sequence number, the message and the two
\* log entries.
ReplicateBody(k) ==
    /\ k \in DOMAIN clientCalls
    /\ clientCalls[k].pc = "at133"
    /\ clientCalls[k].server \notin crashed
    /\ LET s == clientCalls[k].server
           request == ClientRequest(k)
           msg == LeaderMessage(s, request)
       IN /\ prepareSeqNum' = [prepareSeqNum EXCEPT ![s] = @ + 1]
          /\ prepareLog' = [prepareLog EXCEPT
                 ![s] = Append(@, [Request |-> request, Msg0 |-> msg])]
          /\ commitLog' = [commitLog EXCEPT
                 ![s] = Append(@, [Request |-> request, Msg0 |-> (s :> msg)])]
    /\ clientCalls' = [clientCalls EXCEPT ![k].pc = "at161"]
    /\ UNCHANGED <<mu, synchronousGroup, view, executeSeqNum, crashed,
                   prepareCalls, commitCalls, quota, forged>>

\* The local prepareEntry of the k-th Replicate: the entry it appended.
EntryOf(s, k) ==
    CHOOSE e \in {prepareLog[s][i] : i \in DOMAIN prepareLog[s]} :
        e.Request = ClientRequest(k)

\* Mutant: the fan-out starts with the mutex still held.
ReplicateUnlockMissing(k) ==
    /\ k \in DOMAIN clientCalls
    /\ clientCalls[k].pc = "at161"
    /\ clientCalls[k].server \notin crashed
    /\ LET s == clientCalls[k].server
       IN prepareCalls' = prepareCalls \cup
                 {PrepareCall(server, EntryOf(s, k), k) :
                      server \in synchronousGroup \ {s}}
    /\ clientCalls' = [clientCalls EXCEPT ![k].pc = "wait"]
    /\ UNCHANGED <<mu, synchronousGroup, view, prepareSeqNum, executeSeqNum,
                   prepareLog, commitLog, crashed, commitCalls, quota, forged>>

\* Replicate, lines 161-167: mu.Unlock() and the go statements of the
\* fan-out; the task then waits on replyCh.
ReplicateUnlock(k) ==
    /\ k \in DOMAIN clientCalls
    /\ clientCalls[k].pc = "at161"
    /\ clientCalls[k].server \notin crashed
    /\ LET s == clientCalls[k].server
       IN /\ mu' = Unlock(s)
          /\ crashed' = UnlockFatal(s)
          /\ prepareCalls' = prepareCalls \cup
                 {PrepareCall(server, EntryOf(s, k), k) :
                      server \in synchronousGroup \ {s}}
    /\ clientCalls' = [clientCalls EXCEPT ![k].pc = "wait"]
    /\ UNCHANGED <<synchronousGroup, view, prepareSeqNum, executeSeqNum,
                   prepareLog, commitLog, commitCalls, quota, forged>>

\* Replicate, lines 169-173: the last token is received and mu.Lock()
\* succeeds.
ReplicateRelock(k) ==
    /\ k \in DOMAIN clientCalls
    /\ clientCalls[k].pc = "wait"
    /\ clientCalls[k].server \notin crashed
    /\ clientCalls[k].tokens = GroupSize - 1
    /\ mu[clientCalls[k].server] = Free
    /\ mu' = Lock(clientCalls[k].server, ReplicateTask(k))
    /\ clientCalls' = [clientCalls EXCEPT ![k].pc = "at174", ![k].tokens = 0]
    /\ UNCHANGED <<synchronousGroup, view, prepareSeqNum, executeSeqNum,
                   prepareLog, commitLog, crashed, prepareCalls, commitCalls,
                   quota, forged>>

\* Replicate, lines 174-175.
ReplicateExecute(k) ==
    /\ k \in DOMAIN clientCalls
    /\ clientCalls[k].pc = "at174"
    /\ clientCalls[k].server \notin crashed
    /\ executeSeqNum' = [executeSeqNum EXCEPT ![clientCalls[k].server] = @ + 1]
    /\ clientCalls' = [clientCalls EXCEPT ![k].pc = "at180",
                                          ![k].reply.Success = TRUE]
    /\ UNCHANGED <<mu, synchronousGroup, view, prepareSeqNum, prepareLog,
                   commitLog, crashed, prepareCalls, commitCalls, quota, forged>>

\* Replicate returns: the deferred mu.Unlock().
ReplicateDone(k) ==
    /\ k \in DOMAIN clientCalls
    /\ clientCalls[k].pc = "at180"
    /\ clientCalls[k].server \notin crashed
    /\ mu' = Unlock(clientCalls[k].server)
    /\ crashed' = UnlockFatal(clientCalls[k].server)
    /\ clientCalls' = [clientCalls EXCEPT ![k].pc = "done"]
    /\ UNCHANGED <<synchronousGroup, view, prepareSeqNum, executeSeqNum,
                   prepareLog, commitLog, prepareCalls, commitCalls, quota,
                   forged>>

\* Prepare, line 212: mu.Lock() (the deferred Unlock is registered).
PrepareLock(c) ==
    /\ c \in prepareCalls
    /\ c.st = "sent"
    /\ c.to \in synchronousGroup \ crashed
    /\ mu[c.to] = Free
    /\ mu' = Lock(c.to, PrepareTask(c))
    /\ prepareCalls' = Replace(prepareCalls, c, [c EXCEPT !.st = "at215"])
    /\ UNCHANGED <<synchronousGroup, view, prepareSeqNum, executeSeqNum,
                   prepareLog, commitLog, crashed, clientCalls, commitCalls,
                   quota, forged>>

\* Prepare, lines 215-246 and 269-271: the reply is preset, the entry is
\* tested and, if accepted, logged.
PrepareTest(c) ==
    /\ c \in prepareCalls
    /\ c.st = "at215"
    /\ c.to \notin crashed
    /\ LET r == c.to
           e == c.entry
       IN IF PrepareAccepts(r, e)
          THEN /\ prepareSeqNum' = [prepareSeqNum EXCEPT ![r] = @ + 1]
               /\ prepareLog' = [prepareLog EXCEPT ![r] = Append(@, e)]
               /\ commitLog' = [commitLog EXCEPT ![r] = PrepareCommitLog(r, e)]
               /\ prepareCalls' = Replace(prepareCalls, c,
                      [c EXCEPT !.st = "at247", !.tokens = 0,
                                !.reply = PrepareReplyOf(r, e, FALSE)])
          ELSE /\ prepareCalls' = Replace(prepareCalls, c,
                      [c EXCEPT !.st = "at272",
                                !.reply = PrepareReplyOf(r, e, FALSE)])
               /\ UNCHANGED <<prepareSeqNum, prepareLog, commitLog>>
    /\ UNCHANGED <<mu, synchronousGroup, view, executeSeqNum, crashed,
                   clientCalls, commitCalls, quota, forged>>

\* The local msg of an accepted Prepare, built at lines 225-232 with the
\* sequence number just taken.
SentCommit(r, prepareEntry) ==
    Message(COMMIT, digest(prepareEntry.Request),
            sign(r, digest(prepareEntry.Request)),
            prepareEntry.Msg0.PrepareSeqNum, view[r],
            prepareEntry.Request.Timestamp, r)

\* Prepare, lines 247-253: mu.Unlock() and the go statements of the Commit
\* fan-out; the task then waits on replyCh.
PrepareUnlock(c) ==
    /\ c \in prepareCalls
    /\ c.st = "at247"
    /\ c.to \notin crashed
    /\ mu' = Unlock(c.to)
    /\ crashed' = UnlockFatal(c.to)
    /\ prepareCalls' = Replace(prepareCalls, c, [c EXCEPT !.st = "running"])
    /\ commitCalls' = commitCalls \cup
           {CommitCall(c.to, server, SentCommit(c.to, c.entry)) :
                server \in synchronousGroup \ {c.to}}
    /\ UNCHANGED <<synchronousGroup, view, prepareSeqNum, executeSeqNum,
                   prepareLog, commitLog, clientCalls, quota, forged>>

\* Prepare, lines 255-259: the last token is received and mu.Lock()
\* succeeds.
PrepareRelock(c) ==
    /\ c \in prepareCalls
    /\ c.st = "running"
    /\ c.to \notin crashed
    /\ c.tokens = GroupSize - 1
    /\ mu[c.to] = Free
    /\ mu' = Lock(c.to, PrepareTask(c))
    /\ prepareCalls' = Replace(prepareCalls, c,
           [c EXCEPT !.st = "at261", !.tokens = 0])
    /\ UNCHANGED <<synchronousGroup, view, prepareSeqNum, executeSeqNum,
                   prepareLog, commitLog, crashed, clientCalls, commitCalls,
                   quota, forged>>

\* Prepare, line 261 and lines 267-268: the barrier condition; past the end
\* of commitLog the read panics, the deferred mu.Unlock() runs and the
\* process ends.
PrepareBarrierTest(c) ==
    /\ c \in prepareCalls
    /\ c.st = "at261"
    /\ c.to \notin crashed
    /\ LET r == c.to
       IN IF executeSeqNum[r] >= Len(commitLog[r])
          THEN /\ crashed' = crashed \cup {r}
               /\ mu' = Unlock(r)
               /\ UNCHANGED <<executeSeqNum, prepareCalls>>
          ELSE /\ IF BarrierOpen(r)
                  THEN /\ executeSeqNum' = [executeSeqNum EXCEPT ![r] = @ + 1]
                       /\ prepareCalls' = Replace(prepareCalls, c,
                              [c EXCEPT !.st = "at272", !.reply.Success = TRUE])
                  ELSE /\ prepareCalls' = Replace(prepareCalls, c,
                              [c EXCEPT !.st = "at262"])
                       /\ UNCHANGED executeSeqNum
               /\ UNCHANGED <<mu, crashed>>
    /\ UNCHANGED <<synchronousGroup, view, prepareSeqNum, prepareLog, commitLog,
                   clientCalls, commitCalls, quota, forged>>

\* Prepare, lines 262-263: mu.Unlock() and the 10 ms sleep.
PrepareSleepUnlock(c) ==
    /\ c \in prepareCalls
    /\ c.st = "at262"
    /\ c.to \notin crashed
    /\ mu' = Unlock(c.to)
    /\ crashed' = UnlockFatal(c.to)
    /\ prepareCalls' = Replace(prepareCalls, c, [c EXCEPT !.st = "sleep"])
    /\ UNCHANGED <<synchronousGroup, view, prepareSeqNum, executeSeqNum,
                   prepareLog, commitLog, clientCalls, commitCalls, quota,
                   forged>>

\* Prepare, line 264: the sleep is over and mu.Lock() succeeds.
PrepareSleepLock(c) ==
    /\ c \in prepareCalls
    /\ c.st = "sleep"
    /\ c.to \notin crashed
    /\ mu[c.to] = Free
    /\ mu' = Lock(c.to, PrepareTask(c))
    /\ prepareCalls' = Replace(prepareCalls, c, [c EXCEPT !.st = "at261"])
    /\ UNCHANGED <<synchronousGroup, view, prepareSeqNum, executeSeqNum,
                   prepareLog, commitLog, crashed, clientCalls, commitCalls,
                   quota, forged>>

\* Prepare returns: the deferred mu.Unlock().
PrepareDone(c) ==
    /\ c \in prepareCalls
    /\ c.st = "at272"
    /\ c.to \notin crashed
    /\ mu' = Unlock(c.to)
    /\ crashed' = UnlockFatal(c.to)
    /\ prepareCalls' = Replace(prepareCalls, c, [c EXCEPT !.st = "replied"])
    /\ UNCHANGED <<synchronousGroup, view, prepareSeqNum, executeSeqNum,
                   prepareLog, commitLog, clientCalls, commitCalls, quota,
                   forged>>

\* Commit, line 304: mu.Lock() (the deferred Unlock is registered).
CommitLock(c) ==
    /\ c \in commitCalls
    /\ c.st = "sent"
    /\ c.to \in synchronousGroup \ crashed
    /\ mu[c.to] = Free
    /\ mu' = Lock(c.to, CommitTask(c))
    /\ commitCalls' = Replace(commitCalls, c, [c EXCEPT !.st = "at307"])
    /\ UNCHANGED <<synchronousGroup, view, prepareSeqNum, executeSeqNum,
                   prepareLog, commitLog, crashed, clientCalls, prepareCalls,
                   quota, forged>>

\* Commit, lines 307-320.
CommitTest(c) ==
    /\ c \in commitCalls
    /\ c.st = "at307"
    /\ c.to \notin crashed
    /\ LET r == c.to
           msg == c.msg
           valid == CommitVerifies(msg)
           slot == executeSeqNum[r] < Len(commitLog[r])
       IN /\ commitLog' = IF valid /\ slot
                          THEN [commitLog EXCEPT ![r] = CommitRecord(r, msg)]
                          ELSE commitLog
          /\ commitCalls' = Replace(commitCalls, c,
                 [c EXCEPT !.st = "at321",
                           !.reply = [MsgDigest |-> msg.MsgDigest,
                                      Signature |-> sign(r, msg.MsgDigest),
                                      Success |-> valid /\ slot]])
    /\ UNCHANGED <<mu, synchronousGroup, view, prepareSeqNum, executeSeqNum,
                   prepareLog, crashed, clientCalls, prepareCalls, quota, forged>>

\* Commit returns: the deferred mu.Unlock().
CommitDone(c) ==
    /\ c \in commitCalls
    /\ c.st = "at321"
    /\ c.to \notin crashed
    /\ mu' = Unlock(c.to)
    /\ crashed' = UnlockFatal(c.to)
    /\ commitCalls' = Replace(commitCalls, c, [c EXCEPT !.st = "replied"])
    /\ UNCHANGED <<synchronousGroup, view, prepareSeqNum, executeSeqNum,
                   prepareLog, commitLog, clientCalls, prepareCalls, quota,
                   forged>>

\* ----------------------------------------------------- specifications
Core ==
    \/ \E s \in synchronousGroup : ReplicateLeader(s)
    \/ \E k \in DOMAIN clientCalls : ReplicateReturn(k)
    \/ \E c \in prepareCalls : Prepare(c)
    \/ \E c \in prepareCalls : PrepareBarrier(c)
    \/ \E c \in prepareCalls : issuePrepare(c)
    \/ \E c \in commitCalls : Commit(c)
    \/ \E c \in commitCalls : issueCommit(c)

Next ==
    \/ Core
    \/ \E s \in synchronousGroup : ReplicateNotLeader(s)

Spec == Init /\ [][Next]_vars

\* Fair scheduling and reliable transport: every goroutine that can take its
\* next step eventually takes it, every call is eventually delivered and
\* every reply eventually returned. The client driver is not obliged to
\* submit.
Replicas == LargeEnds \ {CLIENT}

Fairness ==
    /\ \A k \in 1 .. MaxReq : WF_vars(ReplicateReturn(k))
    /\ \A r \in Replicas : \A k \in 1 .. MaxReq :
          /\ WF_vars(\E c \in prepareCalls : c.to = r /\ c.ch = k /\ Prepare(c))
          /\ WF_vars(\E c \in prepareCalls : c.to = r /\ c.ch = k /\ PrepareBarrier(c))
          /\ WF_vars(\E c \in prepareCalls : c.to = r /\ c.ch = k /\ issuePrepare(c))
    /\ \A r \in Replicas : \A r2 \in Replicas : \A k \in 1 .. MaxReq :
          /\ WF_vars(\E c \in commitCalls :
                 c.from = r /\ c.to = r2 /\ c.msg.PrepareSeqNum = k /\ Commit(c))
          /\ WF_vars(\E c \in commitCalls :
                 c.from = r /\ c.to = r2 /\ c.msg.PrepareSeqNum = k /\ issueCommit(c))

\* The happy path: N=4, one request.
InitHappy == Make(LargeEnds, 1)

SpecHappy == InitHappy /\ [][Core]_vars /\ Fairness

\* N=4, one client request, and Prepare calls from replicas other than the
\* leader.
InitByz == Make(LargeEnds, 1)

NextByz ==
    \/ Core
    \/ /\ forged < MaxForged
       /\ \E b \in synchronousGroup : \E r \in synchronousGroup :
              \E e \in ForeignEntries(b, r) : ForeignPrepare(b, r, e)
    \/ \E c \in prepareCalls : ForeignReturn(c)

SpecByz == InitByz /\ [][NextByz]_vars

\* Reordering: N=3, two requests, fair scheduling.
InitReorder == Make(Ends, 2)

SpecReorder == InitReorder /\ [][Core]_vars /\ Fairness

\* Lossy transport: N=4, one request.
InitLossy == Make(LargeEnds, 1)

NextLossy ==
    \/ Core
    \/ \E c \in prepareCalls : LosePrepare(c)
    \/ \E c \in commitCalls : LoseCommit(c)

SpecLossy == InitLossy /\ [][NextLossy]_vars

\* Tampering: N=4, one request, Commit signatures altered in transit.
InitTamper == Make(LargeEnds, 1)

NextTamper ==
    \/ Core
    \/ \E c \in commitCalls : TamperCommit(c)

SpecTamper == InitTamper /\ [][NextTamper]_vars

\* Duplicate delivery: N=3, two requests, every request in flight may be
\* delivered twice.
InitDup == Make(Ends, 2)

NextDup ==
    \/ Core
    \/ \E c \in prepareCalls : DuplicatePrepare(c)
    \/ \E c \in prepareCalls : ForeignReturn(c)
    \/ \E c \in commitCalls : DuplicateCommit(c)
    \/ \E c \in commitCalls : DuplicateCommitReturn(c)

SpecDup == InitDup /\ [][NextDup]_vars

\* Group sizes 1 and 2: the leader alone, or the leader and one follower.
InitSolo == \E ends \in {SoloEnds, Ends} : Make(ends, MaxReq)

SpecSolo == InitSolo /\ [][Core]_vars

\* The handlers lock by lock: N=4 with one request (the barrier polls) or
\* N=3 with two requests (handlers of one replica compete for its mutex).
InitLock == Make(LargeEnds, 1) \/ Make(Ends, 2)

NextLock ==
    \/ \E s \in synchronousGroup : ReplicateCall(s)
    \/ \E s \in synchronousGroup : ReplicateNotLeader(s)
    \/ \E k \in DOMAIN clientCalls : ReplicateLock(k)
    \/ \E k \in DOMAIN clientCalls : ReplicateBody(k)
    \/ \E k \in DOMAIN clientCalls : ReplicateUnlock(k)
    \/ \E k \in DOMAIN clientCalls : ReplicateRelock(k)
    \/ \E k \in DOMAIN clientCalls : ReplicateExecute(k)
    \/ \E k \in DOMAIN clientCalls : ReplicateDone(k)
    \/ \E c \in prepareCalls : PrepareLock(c)
    \/ \E c \in prepareCalls : PrepareTest(c)
    \/ \E c \in prepareCalls : PrepareUnlock(c)
    \/ \E c \in prepareCalls : PrepareRelock(c)
    \/ \E c \in prepareCalls : PrepareBarrierTest(c)
    \/ \E c \in prepareCalls : PrepareSleepUnlock(c)
    \/ \E c \in prepareCalls : PrepareSleepLock(c)
    \/ \E c \in prepareCalls : PrepareDone(c)
    \/ \E c \in prepareCalls : issuePrepare(c)
    \/ \E c \in commitCalls : CommitLock(c)
    \/ \E c \in commitCalls : CommitTest(c)
    \/ \E c \in commitCalls : CommitDone(c)
    \/ \E c \in commitCalls : issueCommit(c)

SpecLock == InitLock /\ [][NextLock]_vars

\* =================================================================== claims
Min(a, b) == IF a <= b THEN a ELSE b

\* C1: agreement. Any two correct replicas hold the same request in every
\* slot both have executed.
Agreement ==
    \A r \in synchronousGroup \ crashed : \A r2 \in synchronousGroup \ crashed :
        \A i \in 1 .. Min(executeSeqNum[r], executeSeqNum[r2]) :
            commitLog[r][i].Request = commitLog[r2][i].Request

\* C2: a slot is executed only with a unanimous certificate. At every
\* replica, every executed slot's certificate has exactly the synchronous
\* group as its key set.
UnanimousCertificate ==
    \A r \in synchronousGroup :
        \A i \in 1 .. executeSeqNum[r] :
            Keys(commitLog[r][i].Msg0) = synchronousGroup

\* The one Replicate call has returned {isLeader: true, success: true}.
HappyReturned ==
    /\ Len(clientCalls) = 1
    /\ clientCalls[1].pc = "done"
    /\ clientCalls[1].reply = [IsLeader |-> TRUE, Success |-> TRUE]

\* Every replica holds the request alone, fully certified and executed.
HappyFinal ==
    \A r \in synchronousGroup :
        /\ Len(prepareLog[r]) = 1
        /\ prepareLog[r][1].Request = ClientRequest(1)
        /\ Len(commitLog[r]) = 1
        /\ Keys(commitLog[r][1].Msg0) = synchronousGroup
        /\ executeSeqNum[r] = 1

\* C3: happy path, N=4. A request submitted to the leader eventually returns
\* {isLeader: true, success: true}, and when it has returned every replica
\* holds that request alone in prepareLog, a certificate of slot 0 keyed by
\* the whole group, and executeSeqNum = 1.
HappyPath ==
    /\ (Len(clientCalls) = 1) ~> HappyReturned
    /\ [](HappyReturned => HappyFinal)

HappyPathWitness ==
    /\ synchronousGroup = {1, 2, 3}
    /\ HappyReturned
    /\ clientCalls[1].server = 1

\* C4: Replicate on a replica that is not the leader replies
\* {isLeader: false, success: false}, issues no Prepare or Commit call and
\* leaves the state of every replica unchanged.
NonLeaderReplicateFrame ==
    [][\A k \in DOMAIN clientCalls' :
          (k \notin DOMAIN clientCalls
           /\ clientCalls'[k].server # view[clientCalls'[k].server])
          => /\ clientCalls'[k].reply = [IsLeader |-> FALSE, Success |-> FALSE]
             /\ clientCalls'[k].pc = "done"
             /\ UNCHANGED <<view, prepareSeqNum, executeSeqNum, prepareLog,
                            commitLog, prepareCalls, commitCalls>>]_vars

NonLeaderReplicateWitness ==
    \E k \in DOMAIN clientCalls :
        /\ clientCalls[k].server # view[clientCalls[k].server]
        /\ clientCalls[k].reply = [IsLeader |-> FALSE, Success |-> FALSE]
        /\ \E j \in DOMAIN clientCalls : j < k /\ clientCalls[j].pc = "wait"

\* C5: the Prepare handler accepts if and only if the sequence number is the
\* next one, the digest is the follower's own digest of the request and the
\* signature verifies under msg0.serverId's key; otherwise it replies
\* success == false with its own digest and signature and changes neither
\* sequence number nor log.
PrepareContract ==
    [][\A c \in prepareCalls : \A c2 \in prepareCalls' :
          (/\ c.st = "sent"
           /\ c \notin prepareCalls'
           /\ c2.to = c.to /\ c2.entry = c.entry /\ c2.ch = c.ch
           /\ c2.st \in {"running", "replied"})
          => LET r == c.to
                 e == c.entry
                 d == digest(e.Request)
                 all3 == /\ e.Msg0.PrepareSeqNum = prepareSeqNum[r] + 1
                         /\ e.Msg0.MsgDigest = d
                         /\ e.Msg0.Signature.signer = e.Msg0.ServerId
                         /\ e.Msg0.Signature.signed = d
                 accepted == /\ prepareSeqNum'[r] = prepareSeqNum[r] + 1
                             /\ prepareLog'[r] = Append(prepareLog[r], e)
             IN /\ accepted <=> all3
                /\ ~all3 =>
                      /\ c2.st = "replied"
                      /\ c2.reply = [MsgDigest |-> d,
                                     Signature |-> [signer |-> r, signed |-> d],
                                     Success |-> FALSE]
                      /\ UNCHANGED <<prepareSeqNum, executeSeqNum, prepareLog,
                                     commitLog>>]_vars

\* A Prepare stands rejected for its signature alone (next sequence number,
\* matching digest) beside an accepted Prepare at the same follower.
PrepareContractWitness ==
    \E c \in prepareCalls : \E c2 \in prepareCalls :
        /\ c.to = c2.to
        /\ c.to # view[c.to]
        /\ c2.st = "running"
        /\ c.st = "replied" /\ ~c.reply.Success
        /\ c.entry.Msg0.PrepareSeqNum = prepareSeqNum[c.to] + 1
        /\ c.entry.Msg0.MsgDigest = digest(c.entry.Request)
        /\ ~verify(c.entry.Msg0.ServerId, c.entry.Msg0.MsgDigest,
                   c.entry.Msg0.Signature)

\* C6: the entry a follower's Prepare stores under key view is a PREPARE
\* message of the leader, valid under the leader's public key.
LeaderEntryAuthentic ==
    \A r \in synchronousGroup :
        \A i \in DOMAIN commitLog[r] :
            (r # view[r] /\ view[r] \in Keys(commitLog[r][i].Msg0))
            => LET m == commitLog[r][i].Msg0[view[r]]
               IN /\ m.MsgType = PREPARE
                  /\ m.ServerId = view[r]
                  /\ verify(view[r], m.MsgDigest, m.Signature)

\* C7: dense numbering. At every replica the i-th prepareLog entry (from 0)
\* carries prepareSeqNum i + 1.
DenseNumbering ==
    \A r \in synchronousGroup :
        \A i \in DOMAIN prepareLog[r] :
            prepareLog[r][i].Msg0.PrepareSeqNum = i

\* A follower holds two entries after an out-of-order Prepare was rejected.
DenseNumberingWitness ==
    \E r \in synchronousGroup :
        /\ r # view[r]
        /\ Len(prepareLog[r]) >= 2
        /\ \E c \in prepareCalls :
              c.to = r /\ c.st = "replied" /\ ~c.reply.Success

\* C8: in normal operation the two logs of a replica have the same length
\* whenever its mutex is free (every state here lies between critical
\* sections).
LogsSameLength ==
    \A r \in synchronousGroup : Len(commitLog[r]) = Len(prepareLog[r])

\* Follower f has rejected the Prepare for sequence number 2 while the one
\* for 1 is still in flight.
RejectedSecondFirst(f) ==
    /\ f \in synchronousGroup
    /\ f # view[f]
    /\ prepareSeqNum[f] = 0
    /\ \E c \in prepareCalls :
          /\ c.to = f /\ c.ch = 2 /\ c.entry.Msg0.PrepareSeqNum = 2
          /\ c.st = "replied" /\ ~c.reply.Success
    /\ \E c \in prepareCalls :
          c.to = f /\ c.ch = 1 /\ c.entry.Msg0.PrepareSeqNum = 1 /\ c.st = "sent"

\* Follower f holds exactly requests 1 and 2, in sequence order.
TwoInOrder(f) ==
    /\ f \in synchronousGroup
    /\ Len(prepareLog[f]) = 2
    /\ \A i \in 1 .. 2 :
          /\ prepareLog[f][i].Msg0.PrepareSeqNum = i
          /\ prepareLog[f][i].Request = ClientRequest(i)

\* C9: reordered Prepare. A follower that is handed the Prepare for sequence
\* number 2 before the one for 1 rejects it without changing its state, the
\* leader's issuePrepare issues the same Prepare again, and the follower
\* eventually holds exactly the two entries, in sequence order.
ReorderedPrepare ==
    /\ [][\A c \in prepareCalls :
            (c.st = "sent" /\ c.entry.Msg0.PrepareSeqNum # prepareSeqNum[c.to] + 1
             /\ c \notin prepareCalls')
            => /\ [c EXCEPT !.st = "replied",
                            !.reply = PrepareReplyOf(c.to, c.entry, FALSE)]
                      \in prepareCalls'
               /\ UNCHANGED <<prepareSeqNum, executeSeqNum, prepareLog, commitLog>>]_vars
    /\ [][\A c \in prepareCalls :
            (c.st = "replied" /\ ~c.reply.Success /\ c \notin prepareCalls')
            => [c EXCEPT !.st = "sent", !.reply = NoReply] \in prepareCalls']_vars
    /\ \A f \in Replicas : RejectedSecondFirst(f) ~> [](TwoInOrder(f))

ReorderedPrepareWitness == \E f \in synchronousGroup : RejectedSecondFirst(f)

\* C10: lossy Prepare, N=4. Once a Prepare of the leader has returned
\* ok == false, no call to that follower for that request exists any more,
\* the Replicate keeps waiting with fewer tokens than it needs and the
\* leader's executeSeqNum is 0.
LostPrepareBlocks ==
    \A c \in prepareCalls :
        ~c.ok =>
           /\ c.st = "failed"
           /\ \A c2 \in prepareCalls : (c2.to = c.to /\ c2.ch = c.ch) => c2 = c
           /\ clientCalls[c.ch].pc = "wait"
           /\ clientCalls[c.ch].tokens < GroupSize - 1
           /\ ~clientCalls[c.ch].reply.Success
           /\ executeSeqNum[clientCalls[c.ch].server] = 0

\* The Prepare to one follower was lost before delivery while the other
\* follower has accepted its Prepare.
LostPrepareWitness ==
    \E c \in prepareCalls :
        /\ ~c.ok
        /\ Cardinality(synchronousGroup) = 3
        /\ prepareSeqNum[c.to] = 0
        /\ \E r \in synchronousGroup \ {c.to} : r # view[r] /\ prepareSeqNum[r] = 1

\* C11: signature tampering. A Commit whose signature does not verify is
\* answered success == false (with the recipient's signature over the
\* message's digest) and changes no replica state; the sender's issueCommit
\* then issues its original message again; and a follower executes a slot
\* only when the slot holds, for every other follower, a COMMIT message of
\* that follower valid under that follower's key.
TamperedCommitRejected ==
    /\ [][\A c \in commitCalls :
            (c.st = "tampered" /\ c \notin commitCalls')
            => /\ [c EXCEPT !.st = "replied",
                            !.reply = [MsgDigest |-> c.msg.MsgDigest,
                                       Signature |-> [signer |-> c.to,
                                                      signed |-> c.msg.MsgDigest],
                                       Success |-> FALSE]] \in commitCalls'
               /\ UNCHANGED <<prepareSeqNum, executeSeqNum, prepareLog, commitLog,
                              prepareCalls, clientCalls>>]_vars
    /\ [][\A c \in commitCalls :
            (c.st = "replied" /\ ~c.reply.Success /\ c \notin commitCalls')
            => [c EXCEPT !.st = "sent", !.reply = NoReply] \in commitCalls']_vars
    /\ [](\A r \in synchronousGroup : \A i \in 1 .. executeSeqNum[r] :
              r # view[r] =>
                 \A s \in synchronousGroup \ {r, view[r]} :
                    /\ s \in Keys(commitLog[r][i].Msg0)
                    /\ commitLog[r][i].Msg0[s].MsgType = COMMIT
                    /\ commitLog[r][i].Msg0[s].ServerId = s
                    /\ commitLog[r][i].Msg0[s].Signature.signer = s
                    /\ commitLog[r][i].Msg0[s].Signature.signed =
                           commitLog[r][i].Msg0[s].MsgDigest)

\* A tampered Commit stands rejected at a follower that holds the slot, has
\* all its acknowledgements and waits at its barrier for the sender's entry.
TamperedCommitWitness ==
    \E c \in commitCalls : \E h \in prepareCalls :
        /\ c.st = "replied" /\ ~c.reply.Success
        /\ c.to # view[c.to]
        /\ executeSeqNum[c.to] < Len(commitLog[c.to])
        /\ c.from \notin Keys(commitLog[c.to][executeSeqNum[c.to] + 1].Msg0)
        /\ h.to = c.to /\ h.st = "running" /\ h.tokens = GroupSize - 1

\* C12: duplicate Prepare. A Prepare delivered to a follower that already
\* holds its entry is answered success == false and changes no state; the
\* delivery that finds its number the next one appends it to prepareLog and
\* at most one entry to commitLog; so of two deliveries of the same Prepare
\* at most one is accepted, no entry occurs twice in prepareLog and no
\* request twice in commitLog.
DuplicatePrepareOnce ==
    /\ [][\A c \in prepareCalls :
            (/\ c.st = "sent"
             /\ c \notin prepareCalls'
             /\ \E i \in DOMAIN prepareLog[c.to] : prepareLog[c.to][i] = c.entry)
            => /\ [c EXCEPT !.st = "replied",
                            !.reply = [MsgDigest |-> c.entry.Msg0.MsgDigest,
                                       Signature |-> [signer |-> c.to,
                                                      signed |-> c.entry.Msg0.MsgDigest],
                                       Success |-> FALSE]] \in prepareCalls'
               /\ UNCHANGED <<prepareSeqNum, executeSeqNum, prepareLog, commitLog,
                              commitCalls, clientCalls>>]_vars
    /\ [][\A c \in prepareCalls :
            (/\ c.st = "sent"
             /\ c \notin prepareCalls'
             /\ c.entry.Msg0.PrepareSeqNum = prepareSeqNum[c.to] + 1)
            => /\ prepareLog'[c.to] = Append(prepareLog[c.to], c.entry)
               /\ Len(commitLog'[c.to]) <= Len(commitLog[c.to]) + 1]_vars
    /\ [](\A r \in synchronousGroup :
              /\ \A i \in DOMAIN prepareLog[r] : \A j \in DOMAIN prepareLog[r] :
                    prepareLog[r][i] = prepareLog[r][j] => i = j
              /\ \A i \in DOMAIN commitLog[r] : \A j \in DOMAIN commitLog[r] :
                    commitLog[r][i].Request = commitLog[r][j].Request => i = j)
    /\ [](\A c \in prepareCalls : \A d \in prepareCalls :
              (c.to = d.to /\ c.entry = d.entry /\ c.ch # d.ch)
              => ~(/\ c.st = "running" \/ (c.st = "replied" /\ c.reply.Success)
                   /\ d.st = "running" \/ (d.st = "replied" /\ d.reply.Success)))

\* The second delivery of a Prepare was accepted and its handler runs, and
\* the first delivery, handled after it, stands rejected.
DuplicatePrepareWitness ==
    \E c \in prepareCalls : \E d \in prepareCalls :
        /\ c.to = d.to /\ c.entry = d.entry
        /\ c.ch # 0 /\ d.ch = 0
        /\ d.st = "running"
        /\ c.st = "replied" /\ ~c.reply.Success
        /\ Len(prepareLog[c.to]) = c.entry.Msg0.PrepareSeqNum

\* The Replicate invocations that have returned.
Returned == {k \in DOMAIN clientCalls : clientCalls[k].pc = "done"}

\* C13: with a synchronous group of size 1, Replicate on the leader issues
\* no Prepare and no Commit call, waits for zero tokens, returns
\* {isLeader: true, success: true}, and raises prepareSeqNum,
\* len(prepareLog), len(commitLog) (before the wait) and executeSeqNum (after
\* it) by exactly one each.
SoloReplicate ==
    /\ [](Cardinality(synchronousGroup) = 1 =>
             /\ prepareCalls = {} /\ commitCalls = {} /\ crashed = {}
             /\ \A k \in DOMAIN clientCalls :
                   /\ clientCalls[k].reply.IsLeader
                   /\ clientCalls[k].reply.Success <=> clientCalls[k].pc = "done"
                   /\ clientCalls[k].pc = "wait" =>
                         clientCalls[k].tokens = Cardinality(synchronousGroup) - 1
             /\ \A s \in synchronousGroup :
                   /\ prepareSeqNum[s] = Len(clientCalls)
                   /\ Len(prepareLog[s]) = Len(clientCalls)
                   /\ Len(commitLog[s]) = Len(clientCalls)
                   /\ executeSeqNum[s] = Cardinality(Returned))
    /\ [][Cardinality(synchronousGroup) = 1 =>
            \A s \in synchronousGroup :
               /\ Len(clientCalls') = Len(clientCalls) + 1 =>
                     /\ prepareSeqNum'[s] = prepareSeqNum[s] + 1
                     /\ Len(prepareLog'[s]) = Len(prepareLog[s]) + 1
                     /\ Len(commitLog'[s]) = Len(commitLog[s]) + 1
                     /\ executeSeqNum'[s] = executeSeqNum[s]
               /\ Returned' # Returned =>
                     /\ Cardinality(Returned') = Cardinality(Returned) + 1
                     /\ executeSeqNum'[s] = executeSeqNum[s] + 1
                     /\ UNCHANGED <<prepareSeqNum, prepareLog, commitLog>>]_vars

\* The leader alone has returned one request and holds a second one ready
\* to return.
SoloReplicateWitness ==
    /\ synchronousGroup = {1}
    /\ Len(clientCalls) = 2
    /\ clientCalls[1].pc = "done" /\ clientCalls[1].reply.Success
    /\ clientCalls[2].pc = "wait"
    /\ executeSeqNum[1] = 1 /\ prepareSeqNum[1] = 2

\* C14: execution order equals prepare order. At every replica, every
\* executed slot of commitLog holds the request of the prepareLog entry with
\* the same index.
ExecutionOrder ==
    \A r \in synchronousGroup \ crashed :
        \A i \in 1 .. executeSeqNum[r] :
            /\ i \in DOMAIN prepareLog[r]
            /\ commitLog[r][i].Request = prepareLog[r][i].Request

\* C15: the Commit handler, given a validly signed message. With
\* executeSeqNum < len(commitLog) it stores the message under msg.serverId
\* in the certificate of slot executeSeqNum and replies success == true,
\* changing no other slot, no other key, no request, no sequence number and
\* no log length; with executeSeqNum == len(commitLog) it replies
\* success == false and changes nothing. A delivery that finds the same
\* message already stored leaves the state unchanged and replies
\* success == true.
CommitContract ==
    [][\A c \in commitCalls : \A c2 \in commitCalls' :
          (/\ c.st = "sent"
           /\ c \notin commitCalls'
           /\ c2 \notin commitCalls
           /\ c2.from = c.from /\ c2.to = c.to /\ c2.msg = c.msg
           /\ c.msg.Signature.signer = c.msg.ServerId
           /\ c.msg.Signature.signed = c.msg.MsgDigest)
          => LET r == c.to
                 msg == c.msg
                 id == c.msg.ServerId
                 n == executeSeqNum[r] + 1
             IN /\ c2.st = "replied"
                /\ c2.reply.MsgDigest = msg.MsgDigest
                /\ c2.reply.Signature = [signer |-> r, signed |-> msg.MsgDigest]
                /\ UNCHANGED <<prepareSeqNum, executeSeqNum, prepareLog,
                               prepareCalls, clientCalls>>
                /\ \A r2 \in synchronousGroup \ {r} : commitLog'[r2] = commitLog[r2]
                /\ Len(commitLog'[r]) = Len(commitLog[r])
                /\ IF executeSeqNum[r] < Len(commitLog[r])
                   THEN /\ c2.reply.Success
                        /\ \A i \in DOMAIN commitLog[r] \ {n} :
                              commitLog'[r][i] = commitLog[r][i]
                        /\ commitLog'[r][n].Request = commitLog[r][n].Request
                        /\ Keys(commitLog'[r][n].Msg0) =
                               Keys(commitLog[r][n].Msg0) \cup {id}
                        /\ commitLog'[r][n].Msg0[id] = msg
                        /\ \A k \in Keys(commitLog[r][n].Msg0) \ {id} :
                              commitLog'[r][n].Msg0[k] = commitLog[r][n].Msg0[k]
                        /\ (id \in Keys(commitLog[r][n].Msg0)
                             /\ commitLog[r][n].Msg0[id] = msg)
                            => UNCHANGED commitLog
                   ELSE /\ executeSeqNum[r] = Len(commitLog[r])
                        /\ ~c2.reply.Success
                        /\ UNCHANGED commitLog]_vars

\* The same Commit message was delivered twice to a replica that still is at
\* the slot where the first delivery stored it; both were answered
\* success == true.
CommitContractWitness ==
    \E c \in commitCalls : \E d \in commitCalls :
        /\ c.from # CLIENT /\ d.from = CLIENT
        /\ c.to = d.to /\ c.msg = d.msg
        /\ c.st = "replied" /\ c.reply.Success
        /\ d.st = "replied" /\ d.reply.Success
        /\ executeSeqNum[c.to] < Len(commitLog[c.to])
        /\ c.msg.ServerId \in Keys(commitLog[c.to][executeSeqNum[c.to] + 1].Msg0)
        /\ commitLog[c.to][executeSeqNum[c.to] + 1].Msg0[c.msg.ServerId] = c.msg

\* The labels at which Replicate, Prepare and Commit read or write
\* prepareSeqNum, executeSeqNum, prepareLog or commitLog, and those at which
\* they call mu.Unlock().
ReplicateAccess == {"at133", "at174"}
ReplicateUnlocks == {"at161", "at180"}
PrepareAccess == {"at215", "at261"}
PrepareUnlocks == {"at247", "at262", "at272"}
CommitAccess == {"at307"}
CommitUnlocks == {"at321"}

\* The tasks of replica r that stand between a mu.Lock() and the matching
\* mu.Unlock().
Inside(r) ==
    {ReplicateTask(k) : k \in {j \in DOMAIN clientCalls :
         /\ clientCalls[j].server = r
         /\ clientCalls[j].pc \in ReplicateAccess \cup ReplicateUnlocks}}
    \cup {PrepareTask(c) : c \in {d \in prepareCalls :
         d.to = r /\ d.st \in PrepareAccess \cup PrepareUnlocks}}
    \cup {CommitTask(c) : c \in {d \in commitCalls :
         d.to = r /\ d.st \in CommitAccess \cup CommitUnlocks}}

\* C16: locking discipline. A task waiting on its completion channel, in the
\* barrier sleep, or with an RPC of its fan-out outstanding does not hold its
\* replica's mutex; a task about to read or write prepareSeqNum,
\* executeSeqNum, prepareLog or commitLog, or about to call mu.Unlock(), holds
\* it; a task that has returned does not hold it, the step by which a handler
\* returns leaves the mutex free, and the mutex is held only by a task that
\* stands between a Lock and its Unlock.
LockDiscipline ==
    /\ [](\A k \in DOMAIN clientCalls :
              LET s == clientCalls[k].server
                  pc == clientCalls[k].pc
              IN s \notin crashed =>
                 /\ pc \in {"at130", "wait", "done"} => mu[s] # ReplicateTask(k)
                 /\ pc \in ReplicateAccess \cup ReplicateUnlocks
                       => mu[s] = ReplicateTask(k)
                 /\ (\E c \in prepareCalls : c.ch = k) => mu[s] # ReplicateTask(k))
    /\ [](\A c \in prepareCalls :
              c.to \notin crashed =>
                 /\ c.st \in {"sent", "running", "sleep", "replied"}
                       => mu[c.to] # PrepareTask(c)
                 /\ c.st \in PrepareAccess \cup PrepareUnlocks
                       => mu[c.to] = PrepareTask(c)
                 /\ (\E d \in commitCalls :
                        /\ d.from = c.to
                        /\ d.msg.PrepareSeqNum = c.entry.Msg0.PrepareSeqNum)
                    => mu[c.to] # PrepareTask(c))
    /\ [](\A c \in commitCalls :
              c.to \notin crashed =>
                 /\ c.st \in {"sent", "replied"} => mu[c.to] # CommitTask(c)
                 /\ c.st \in CommitAccess \cup CommitUnlocks
                       => mu[c.to] = CommitTask(c))
    /\ [](\A r \in synchronousGroup \ crashed :
              Inside(r) = IF mu[r] = Free THEN {} ELSE {mu[r]})
    /\ [][/\ \A k \in DOMAIN clientCalls :
               (clientCalls[k].pc # "done" /\ clientCalls'[k].pc = "done")
               => mu'[clientCalls[k].server] = Free
          /\ \A c \in prepareCalls : \A c2 \in prepareCalls' :
               (/\ c.to = c2.to /\ c.entry = c2.entry /\ c.ch = c2.ch
                /\ c.st # "replied" /\ c2.st = "replied")
               => mu'[c.to] = Free
          /\ \A c \in commitCalls : \A c2 \in commitCalls' :
               (/\ c.to = c2.to /\ c.from = c2.from /\ c.msg = c2.msg
                /\ c.st # "replied" /\ c2.st = "replied")
               => mu'[c.to] = Free]_vars

\* At one follower a Commit handler holds the mutex while the Prepare handler
\* sleeps in its barrier; the leader's Replicate waits on its channel.
LockDisciplineWitness ==
    \E c \in prepareCalls : \E d \in commitCalls :
        /\ c.st = "sleep"
        /\ d.to = c.to /\ d.st = "at307" /\ mu[c.to] = CommitTask(d)
        /\ Len(clientCalls) = 1 /\ clientCalls[1].pc = "wait"

\* The other members of the group from which replica r awaits tokens.
Others(r) == synchronousGroup \ {r}

\* A reply that issuePrepare / issueCommit for `server` counts as positive.
PositiveReply(server, outDigest, reply) ==
    /\ reply.Success
    /\ reply.MsgDigest = outDigest
    /\ reply.Signature.signer = server
    /\ reply.Signature.signed = reply.MsgDigest

\* C17: each completion channel receives at most one token per other group
\* member, pushed only for a reply of that member with success == true, the
\* outgoing digest and a signature valid under that member's key. While a
\* Replicate or a Prepare handler waits, its tokens are as many as the other
\* members for which no call of its fan-out is left, so they come from
\* distinct members and never exceed len(synchronousGroup) - 1.
ChannelTokens ==
    /\ [][\A k \in DOMAIN clientCalls :
            clientCalls'[k].tokens > clientCalls[k].tokens
            => /\ clientCalls'[k].tokens = clientCalls[k].tokens + 1
               /\ \E c \in prepareCalls \ prepareCalls' :
                     /\ c.ch = k /\ c.st = "replied"
                     /\ PositiveReply(c.to, c.entry.Msg0.MsgDigest, c.reply)
                     /\ \A d \in prepareCalls' : ~(d.ch = k /\ d.to = c.to)]_vars
    /\ [][\A h \in prepareCalls : \A h2 \in prepareCalls' :
            (/\ h.to = h2.to /\ h.entry = h2.entry /\ h.ch = h2.ch
             /\ h.st = "running" /\ h2.st = "running"
             /\ h2.tokens > h.tokens)
            => /\ h2.tokens = h.tokens + 1
               /\ \E c \in commitCalls \ commitCalls' :
                     /\ c.from = h.to /\ c.st = "replied"
                     /\ c.msg.PrepareSeqNum = h.entry.Msg0.PrepareSeqNum
                     /\ PositiveReply(c.to, c.msg.MsgDigest, c.reply)
                     /\ \A d \in commitCalls' :
                           ~(d.from = c.from /\ d.to = c.to /\ d.msg = c.msg)]_vars
    /\ [](\A k \in DOMAIN clientCalls :
              clientCalls[k].pc = "wait" =>
                 /\ clientCalls[k].tokens <= GroupSize - 1
                 /\ clientCalls[k].tokens =
                       Cardinality({s \in Others(clientCalls[k].server) :
                           \A c \in prepareCalls : ~(c.ch = k /\ c.to = s)})
                 /\ \A c \in prepareCalls : \A d \in prepareCalls :
                       (c.ch = k /\ d.ch = k /\ c.to = d.to) => c = d)
    /\ [](\A h \in prepareCalls :
              h.st = "running" =>
                 /\ h.tokens <= GroupSize - 1
                 /\ h.tokens =
                       Cardinality({s \in Others(h.to) :
                           \A c \in commitCalls :
                              ~(/\ c.from = h.to /\ c.to = s
                                /\ c.msg.PrepareSeqNum = h.entry.Msg0.PrepareSeqNum)})
                 /\ \A c \in commitCalls : \A d \in commitCalls :
                       (c.from = h.to /\ d.from = h.to /\ c.to = d.to /\ c.msg = d.msg)
                       => c = d)

\* A follower's handler holds the token of one member while its Commit to
\* the other member stands rejected and will be issued again; the leader's
\* Replicate still waits.
ChannelTokensWitness ==
    \E h \in prepareCalls : \E c \in commitCalls :
        /\ h.st = "running" /\ h.ch # 0
        /\ h.tokens = 1
        /\ GroupSize = 3
        /\ c.from = h.to /\ c.st = "replied" /\ ~c.reply.Success
        /\ clientCalls[h.ch].pc = "wait"

\* C18: index safety of the execution barrier. A Prepare handler that has
\* all its acknowledgements, and so reads commitLog[executeSeqNum] next,
\* finds executeSeqNum < len(commitLog).
BarrierIndexSafe ==
    \A c \in prepareCalls :
        (c.st = "running" /\ c.tokens = GroupSize - 1 /\ c.to \notin crashed)
        => executeSeqNum[c.to] < Len(commitLog[c.to])

\* C19: certificate/request consistency. At every correct replica, every
\* message stored in the certificate of a slot carries the digest of that
\* slot's request.
CertificateMatchesRequest ==
    \A r \in synchronousGroup \ crashed :
        \A i \in DOMAIN commitLog[r] :
            \A s \in Keys(commitLog[r][i].Msg0) :
                commitLog[r][i].Msg0[s].MsgDigest = digest(commitLog[r][i].Request)

\* C20: progress with pipelined requests. Once two Replicate calls are in
\* flight at the leader together, eventually both have returned
\* {isLeader: true, success: true} and every replica has executeSeqNum 2.
PipelinedProgress ==
    (/\ Len(clientCalls) = 2
     /\ clientCalls[1].pc = "wait"
     /\ clientCalls[2].pc = "wait")
    ~> (/\ Len(clientCalls) = 2
        /\ \A k \in 1 .. 2 :
             /\ clientCalls[k].pc = "done"
             /\ clientCalls[k].reply = [IsLeader |-> TRUE, Success |-> TRUE]
        /\ \A r \in synchronousGroup : executeSeqNum[r] = 2)

====
